---- MODULE Spec2Model ----
(***************************************************************************)
(* A model of Generate-SubwayMap.py: the SubwayMapGenerator renderer (its  *)
(* drawing primitives, draw_legend, generate_map and save), the pyplot     *)
(* figure registry it goes through, and main.                              *)
(*                                                                         *)
(* Lengths are fixed-point numbers in hundredths of a logical unit, so     *)
(* that 0.5, 2.5 and the radii 0.6 .. 1.8 are integers: the canvas spans   *)
(* 0 .. 10000 on both axes.                                                *)
(***************************************************************************)
EXTENDS Integers, Sequences, FiniteSets, TLC

VARIABLES
    figs,       \* figs[n]: figure number n as pyplot created it: its axes' artists and its face colours
    fignums,    \* the figure numbers pyplot holds open (its registry)
    gcf,        \* pyplot's current figure (0: none yet)
    gens,       \* gens[i]: renderer i: [fig |-> its figure's number (0: not constructed), stations |-> name -> position]
    fs,         \* the file system: a path's content, NoFile when absent
    stdout,     \* what was printed, in order
    log,        \* the calls made so far, in order (history)
    step,       \* generate_map's position: the number of its calls already made
    pc,         \* main's position
    args,       \* main's parsed arguments
    exit        \* <<>> while the process runs, <<status>> once it has ended

vars == <<figs, fignums, gcf, gens, fs, stdout, log, step, pc, args, exit>>

Units(n) == n * 100

(***************************************************************************)
(* Module-level constants                                                  *)
(***************************************************************************)
CODEBASE_STRUCTURE ==
    [Root |->
        [files |-> <<"cpuinfo", "meminfo", "version", "uptime", "loadavg", "stat",
                     "mounts", "cmdline", "filesystems", "swaps", "partitions", "modules">>,
         dirs  |-> ("net" :> <<"dev", "route", "arp", "tcp", "udp">>)
                @@ ("sys/kernel" :> <<"hostname", "ostype", "osrelease", "version">>)
                @@ ("devices" :> <<"block", "character">>)
                @@ ("self" :> <<"cmdline", "status", "stat", "environ">>)
                @@ ("[PID]" :> <<"cmdline", "status", "stat", "environ", "maps">>)]]

COLORS ==
    [system_info |-> "#E63946",
     network     |-> "#2A9D8F",
     config      |-> "#F4A261",
     devices     |-> "#E76F51",
     processes   |-> "#264653",
     storage     |-> "#8338EC"]

\* The axis limits set by __init__: set_xlim(0, 100), set_ylim(0, 100).
LimLo == Units(0)
LimHi == Units(100)

\* Defaults of the primitives' keyword arguments.
DefaultSize == 80
DefaultLinewidth == 4
DefaultFontsize == 9
DefaultOffsetX == 200
DefaultOffsetY == 0
\* matplotlib's depth for a text that is given none.
TextDefaultZorder == 3

(***************************************************************************)
(* The drawing primitives, on a renderer value                             *)
(*   self = [ax |-> artists in drawing order, stations |-> name -> (x, y)] *)
(* An artist's "by" names the method that drew it.                         *)
(***************************************************************************)
Circle(x, y, radius, color, zorder) ==
    [kind |-> "circle", pts |-> << <<x, y>> >>, r |-> radius, color |-> color,
     zorder |-> zorder, by |-> "draw_station"]

\* size*1.2
Ring(size) == (size * 12) \div 10

\* draw_station with the inner circle of an interchange left at the ring's depth.
draw_station_flat(self, x, y, name, color, is_interchange, size) ==
    LET circles == IF is_interchange
                   THEN << Circle(x, y, Ring(size), "white", 3), Circle(x, y, size, color, 3) >>
                   ELSE << Circle(x, y, size, color, 3) >>
    IN [self EXCEPT !.ax = @ \o circles,
                    !.stations = (name :> <<x, y>>) @@ @]

draw_station(self, x, y, name, color, is_interchange, size) ==
    LET circles == IF is_interchange
                   THEN << Circle(x, y, Ring(size), "white", 3), Circle(x, y, size, color, 4) >>
                   ELSE << Circle(x, y, size, color, 3) >>
    IN [self EXCEPT !.ax = @ \o circles,
                    !.stations = (name :> <<x, y>>) @@ @]

\* zip(*points) yields as many sequences as the shortest point has coordinates, and
\* "xs, ys = ..." needs exactly two of them.
MinArity(points) ==
    CHOOSE n \in {Len(points[k]) : k \in 1..Len(points)} :
        \A k \in 1..Len(points) : n <= Len(points[k])

draw_line_raises(points) == Len(points) >= 2 /\ MinArity(points) # 2

Polyline(points, color, linewidth, style, by) ==
    [kind |-> "line", pts |-> [k \in 1..Len(points) |-> <<points[k][1], points[k][2]>>],
     color |-> color, lw |-> linewidth, ls |-> style, zorder |-> 2, by |-> by]

\* draw_line with the guard off by one: a single point is plotted.
draw_line_off_by_one(self, points, color, linewidth, style) ==
    IF Len(points) < 1
    THEN self
    ELSE [self EXCEPT !.ax = Append(@, Polyline(points, color, linewidth, style, "draw_line"))]

\* draw_line plotting at the depth of the stations' inner circles.
draw_line_above(self, points, color, linewidth, style) ==
    IF Len(points) < 2
    THEN self
    ELSE [self EXCEPT !.ax = Append(@, [Polyline(points, color, linewidth, style, "draw_line")
                                          EXCEPT !.zorder = 4])]

draw_line(self, points, color, linewidth, style) ==
    IF Len(points) < 2
    THEN self
    ELSE [self EXCEPT !.ax = Append(@, Polyline(points, color, linewidth, style, "draw_line"))]

Text(x, y, text, fontsize, ha, va, fontweight, bbox, zorder, by) ==
    [kind |-> "text", pts |-> << <<x, y>> >>, text |-> text, fontsize |-> fontsize,
     ha |-> ha, va |-> va, weight |-> fontweight, bbox |-> bbox, zorder |-> zorder, by |-> by]

add_label(self, x, y, text, fontsize, ha, va, offset_x, offset_y, bbox_style, fontweight) ==
    IF bbox_style
    THEN [self EXCEPT !.ax = Append(@, Text(x + offset_x, y + offset_y, text, fontsize, ha, va,
                                            fontweight, "round", 5, "add_label"))]
    ELSE [self EXCEPT !.ax = Append(@, Text(x + offset_x, y + offset_y, text, fontsize, ha, va,
                                            fontweight, "none", 5, "add_label"))]

legend_x == Units(5)
legend_y == Units(8)

LegendLines ==
    << <<"System Info Line", COLORS.system_info>>,
       <<"Network Line", COLORS.network>>,
       <<"Configuration Line", COLORS.config>>,
       <<"Devices Line", COLORS.devices>>,
       <<"Process Line", COLORS.processes>>,
       <<"Storage Line", COLORS.storage>> >>

\* One legend entry, i counted from 0 as enumerate does.
LegendEntry(i) ==
    LET y == legend_y - i * Units(2)
    IN << Polyline(<< <<legend_x, y>>, <<legend_x + Units(4), y>> >>,
                   LegendLines[i + 1][2], 4, "-", "draw_legend"),
          Text(legend_x + Units(5), y, LegendLines[i + 1][1], 10, "left", "center",
               "normal", "none", 5, "draw_legend") >>

draw_legend(self) ==
    LET title == << Text(legend_x, legend_y + Units(18), "PsProc Filesystem", 24, "left",
                         "baseline", "bold", "none", 5, "draw_legend"),
                    Text(legend_x, legend_y + Units(15), "Subway Map", 20, "left",
                         "baseline", "bold", "none", 5, "draw_legend") >>
        entries[i \in 0..Len(LegendLines)] ==
            IF i = 0 THEN <<>> ELSE entries[i - 1] \o LegendEntry(i - 1)
    IN [self EXCEPT !.ax = @ \o title \o entries[Len(LegendLines)]]

(***************************************************************************)
(* generate_map: the calls it makes, in order.  A call is a record naming  *)
(* the method and its arguments, keyword defaults filled in.               *)
(***************************************************************************)
St(x, y, name, color, is_interchange, size) ==
    [op |-> "draw_station", x |-> x, y |-> y, name |-> name, color |-> color,
     is_interchange |-> is_interchange, size |-> size]

Ln(points, color, linewidth) ==
    [op |-> "draw_line", points |-> points, color |-> color, linewidth |-> linewidth,
     style |-> "-"]

Lb(x, y, text, fontsize, ha, offset_x, offset_y, bbox_style, fontweight) ==
    [op |-> "add_label", x |-> x, y |-> y, text |-> text, fontsize |-> fontsize, ha |-> ha,
     va |-> "center", offset_x |-> offset_x, offset_y |-> offset_y,
     bbox_style |-> bbox_style, fontweight |-> fontweight]

\* for s in seq: Body(s), the calls of all iterations in order
ForEach(Body(_), seq) ==
    LET f[k \in 0..Len(seq)] == IF k = 0 THEN <<>> ELSE f[k - 1] \o Body(seq[k])
    IN f[Len(seq)]

\* [s[:2] for s in seq]
Points2(seq) == [k \in 1..Len(seq) |-> <<seq[k][1], seq[k][2]>>]

hub_x == Units(50)
hub_y == Units(50)

HubCalls ==
    << St(hub_x, hub_y, "proc:/", "black", TRUE, 150),
       Lb(hub_x, hub_y, "proc:/", 14, "center", 0, -Units(3), TRUE, "bold") >>

sys_info_stations ==
    << <<hub_x, hub_y>>,
       <<hub_x, hub_y + Units(8), "cpuinfo">>,
       <<hub_x, hub_y + Units(14), "meminfo">>,
       <<hub_x, hub_y + Units(20), "version">>,
       <<hub_x, hub_y + Units(26), "uptime">>,
       <<hub_x, hub_y + Units(32), "loadavg">>,
       <<hub_x, hub_y + Units(38), "stat">> >>

SysInfoCalls ==
    << Ln(Points2(sys_info_stations), COLORS.system_info, DefaultLinewidth) >>
    \o ForEach(LAMBDA s : << St(s[1], s[2], s[3], COLORS.system_info, FALSE, DefaultSize),
                             Lb(s[1], s[2], s[3], DefaultFontsize, "left", Units(3),
                                DefaultOffsetY, FALSE, "normal") >>,
               Tail(sys_info_stations))

net_hub_x == hub_x + Units(20)
net_hub_y == hub_y + Units(20)

\* net_stations with udp left out.
net_stations_without_udp ==
    << <<hub_x + Units(20) + Units(8), hub_y + Units(20) + Units(4), "dev">>,
       <<hub_x + Units(20) + Units(12), hub_y + Units(20) + Units(8), "route">>,
       <<hub_x + Units(20) + Units(16), hub_y + Units(20) + Units(4), "arp">>,
       <<hub_x + Units(20) + Units(20), hub_y + Units(20), "tcp">> >>

net_stations ==
    << <<net_hub_x + Units(8), net_hub_y + Units(4), "dev">>,
       <<net_hub_x + Units(12), net_hub_y + Units(8), "route">>,
       <<net_hub_x + Units(16), net_hub_y + Units(4), "arp">>,
       <<net_hub_x + Units(20), net_hub_y, "tcp">>,
       <<net_hub_x + Units(20), net_hub_y - Units(4), "udp">> >>

NetworkCalls ==
    << Ln(<< <<hub_x, hub_y>>, <<net_hub_x, net_hub_y>> >>, COLORS.network, DefaultLinewidth),
       St(net_hub_x, net_hub_y, "net/", COLORS.network, TRUE, DefaultSize),
       Lb(net_hub_x, net_hub_y, "net/", 11, "center", 0, Units(2), TRUE, "bold") >>
    \o ForEach(LAMBDA s : << Ln(<< <<net_hub_x, net_hub_y>>, <<s[1], s[2]>> >>, COLORS.network, 3),
                             St(s[1], s[2], "net/" \o s[3], COLORS.network, FALSE, 60),
                             Lb(s[1], s[2], s[3], 8, "left", Units(2), DefaultOffsetY,
                                FALSE, "normal") >>,
               net_stations)

sys_hub_x == hub_x + Units(20)
sys_hub_y == hub_y - Units(20)
kernel_x == sys_hub_x + Units(10)
kernel_y == sys_hub_y - Units(8)

kernel_stations ==
    << <<kernel_x + Units(6), kernel_y - Units(4), "hostname">>,
       <<kernel_x + Units(10), kernel_y - Units(6), "ostype">>,
       <<kernel_x + Units(14), kernel_y - Units(4), "osrelease">>,
       <<kernel_x + Units(18), kernel_y, "version">> >>

\* The kernel stations recorded under their bare names, without the kernel/ prefix.
KernelStationCallsBare ==
    ForEach(LAMBDA s : << Ln(<< <<kernel_x, kernel_y>>, <<s[1], s[2]>> >>, COLORS.config, 3),
                          St(s[1], s[2], s[3], COLORS.config, FALSE, 60),
                          Lb(s[1], s[2], s[3], 8, "left", Units(2), DefaultOffsetY,
                             FALSE, "normal") >>,
            kernel_stations)

KernelStationCalls ==
    ForEach(LAMBDA s : << Ln(<< <<kernel_x, kernel_y>>, <<s[1], s[2]>> >>, COLORS.config, 3),
                          St(s[1], s[2], "kernel/" \o s[3], COLORS.config, FALSE, 60),
                          Lb(s[1], s[2], s[3], 8, "left", Units(2), DefaultOffsetY,
                             FALSE, "normal") >>,
            kernel_stations)

ConfigCalls ==
    << Ln(<< <<hub_x, hub_y>>, <<sys_hub_x, sys_hub_y>> >>, COLORS.config, DefaultLinewidth),
       St(sys_hub_x, sys_hub_y, "sys/", COLORS.config, TRUE, DefaultSize),
       Lb(sys_hub_x, sys_hub_y, "sys/", 11, "center", 0, -250, TRUE, "bold"),
       Ln(<< <<sys_hub_x, sys_hub_y>>, <<kernel_x, kernel_y>> >>, COLORS.config, DefaultLinewidth),
       St(kernel_x, kernel_y, "sys/kernel/", COLORS.config, TRUE, 90),
       Lb(kernel_x, kernel_y, "kernel/", 10, "center", 0, -Units(2), FALSE, "bold") >>
    \o KernelStationCalls

dev_hub_x == hub_x + Units(22)
dev_hub_y == hub_y

dev_stations ==
    << <<dev_hub_x + Units(8), dev_hub_y + Units(3), "block">>,
       <<dev_hub_x + Units(8), dev_hub_y - Units(3), "character">> >>

DevicesCalls ==
    << Ln(<< <<hub_x, hub_y>>, <<dev_hub_x, dev_hub_y>> >>, COLORS.devices, DefaultLinewidth),
       St(dev_hub_x, dev_hub_y, "devices/", COLORS.devices, TRUE, DefaultSize),
       Lb(dev_hub_x, dev_hub_y, "devices/", 11, "center", 0, Units(2), TRUE, "bold") >>
    \o ForEach(LAMBDA s : << Ln(<< <<dev_hub_x, dev_hub_y>>, <<s[1], s[2]>> >>, COLORS.devices, 3),
                             St(s[1], s[2], "devices/" \o s[3], COLORS.devices, FALSE, 60),
                             Lb(s[1], s[2], s[3], 8, "left", Units(2), DefaultOffsetY,
                                FALSE, "normal") >>,
               dev_stations)

proc_hub_x == hub_x - Units(20)
proc_hub_y == hub_y + Units(20)

self_stations ==
    << <<proc_hub_x - Units(8), proc_hub_y + Units(4), "cmdline">>,
       <<proc_hub_x - Units(12), proc_hub_y + Units(8), "status">>,
       <<proc_hub_x - Units(16), proc_hub_y + Units(4), "stat">>,
       <<proc_hub_x - Units(18), proc_hub_y, "environ">> >>

pid_x == proc_hub_x
pid_y == proc_hub_y + Units(12)

pid_stations ==
    << <<pid_x - Units(6), pid_y + Units(4), "cmdline">>,
       <<pid_x - Units(10), pid_y + Units(6), "status">>,
       <<pid_x - Units(14), pid_y + Units(4), "stat">>,
       <<pid_x - Units(16), pid_y, "environ">>,
       <<pid_x - Units(16), pid_y - Units(4), "maps">> >>

ProcessCalls ==
    << Ln(<< <<hub_x, hub_y>>, <<proc_hub_x, proc_hub_y>> >>, COLORS.processes, DefaultLinewidth),
       St(proc_hub_x, proc_hub_y, "self/", COLORS.processes, TRUE, DefaultSize),
       Lb(proc_hub_x, proc_hub_y, "self/", 11, "center", 0, Units(2), TRUE, "bold") >>
    \o ForEach(LAMBDA s : << Ln(<< <<proc_hub_x, proc_hub_y>>, <<s[1], s[2]>> >>, COLORS.processes, 3),
                             St(s[1], s[2], "self/" \o s[3], COLORS.processes, FALSE, 60),
                             Lb(s[1], s[2], s[3], 8, "right", -Units(2), DefaultOffsetY,
                                FALSE, "normal") >>,
               self_stations)
    \o << Ln(<< <<proc_hub_x, proc_hub_y>>, <<pid_x, pid_y>> >>, COLORS.processes, DefaultLinewidth),
          St(pid_x, pid_y, "[PID]/", COLORS.processes, TRUE, 90),
          Lb(pid_x, pid_y, "[PID]/", 10, "center", 0, Units(2), FALSE, "bold") >>
    \o ForEach(LAMBDA s : << Ln(<< <<pid_x, pid_y>>, <<s[1], s[2]>> >>, COLORS.processes, 3),
                             St(s[1], s[2], "[PID]/" \o s[3], COLORS.processes, FALSE, 60),
                             Lb(s[1], s[2], s[3], 8, "right", -Units(2), DefaultOffsetY,
                                FALSE, "normal") >>,
               pid_stations)

storage_stations ==
    << <<hub_x, hub_y>>,
       <<hub_x - Units(8), hub_y - Units(8), "mounts">>,
       <<hub_x - Units(14), hub_y - Units(14), "swaps">>,
       <<hub_x - Units(20), hub_y - Units(20), "partitions">>,
       <<hub_x - Units(26), hub_y - Units(26), "filesystems">> >>

\* The storage stations drawn before the line that joins them.
StorageCallsStationsFirst ==
    ForEach(LAMBDA s : << St(s[1], s[2], s[3], COLORS.storage, FALSE, DefaultSize),
                          Lb(s[1], s[2], s[3], DefaultFontsize, "right", -Units(2),
                             DefaultOffsetY, FALSE, "normal") >>,
            Tail(storage_stations))
    \o << Ln(Points2(storage_stations), COLORS.storage, DefaultLinewidth) >>

StorageCalls ==
    << Ln(Points2(storage_stations), COLORS.storage, DefaultLinewidth) >>
    \o ForEach(LAMBDA s : << St(s[1], s[2], s[3], COLORS.storage, FALSE, DefaultSize),
                             Lb(s[1], s[2], s[3], DefaultFontsize, "right", -Units(2),
                                DefaultOffsetY, FALSE, "normal") >>,
               Tail(storage_stations))

ExtraCalls ==
    << Ln(<< <<hub_x, hub_y>>, <<hub_x - Units(12), hub_y>> >>, COLORS.system_info, 3),
       St(hub_x - Units(12), hub_y, "modules", COLORS.system_info, FALSE, 60),
       Lb(hub_x - Units(12), hub_y, "modules", 8, "right", -Units(2), DefaultOffsetY,
          FALSE, "normal"),
       Ln(<< <<hub_x, hub_y>>, <<hub_x, hub_y - Units(8)>> >>, COLORS.system_info, 3),
       St(hub_x, hub_y - Units(8), "cmdline", COLORS.system_info, FALSE, 60),
       Lb(hub_x, hub_y - Units(8), "cmdline", 8, "center", DefaultOffsetX, -Units(2),
          FALSE, "normal") >>

\* The footer texts are drawn on the axes directly, with no zorder.
FooterCalls ==
    << [op |-> "ax.text", x |-> Units(50), y |-> Units(2),
        text |-> "PowerShell proc: Drive Filesystem Structure", fontsize |-> 10],
       [op |-> "ax.text", x |-> Units(50), y |-> 50,
        text |-> "Generated by Generate-SubwayMap.py", fontsize |-> 8] >>

BackgroundCalls ==
    << [op |-> "set_facecolor", figface |-> "#f5f5f5", axface |-> "white"] >>

\* The sections of generate_map, in order.
generate_map_sections ==
    << HubCalls, SysInfoCalls, NetworkCalls, ConfigCalls, DevicesCalls, ProcessCalls,
       StorageCalls, ExtraCalls, << [op |-> "draw_legend"] >>, FooterCalls, BackgroundCalls >>

generate_map_calls ==
    LET f[k \in 0..Len(generate_map_sections)] ==
            IF k = 0 THEN <<>> ELSE f[k - 1] \o generate_map_sections[k]
    IN f[Len(generate_map_sections)]

FooterText(c) ==
    [kind |-> "text", pts |-> << <<c.x, c.y>> >>, text |-> c.text, fontsize |-> c.fontsize,
     ha |-> "center", va |-> "baseline", weight |-> "normal", bbox |-> "none",
     zorder |-> TextDefaultZorder, by |-> "generate_map"]

\* The effect of one call of generate_map on the renderer.
Apply(self, c) ==
    CASE c.op = "draw_station" ->
            draw_station(self, c.x, c.y, c.name, c.color, c.is_interchange, c.size)
      [] c.op = "draw_line" ->
            draw_line(self, c.points, c.color, c.linewidth, c.style)
      [] c.op = "add_label" ->
            add_label(self, c.x, c.y, c.text, c.fontsize, c.ha, c.va, c.offset_x,
                      c.offset_y, c.bbox_style, c.fontweight)
      [] c.op = "draw_legend" -> draw_legend(self)
      [] c.op = "ax.text" -> [self EXCEPT !.ax = Append(@, FooterText(c))]
      [] c.op = "set_facecolor" -> [self EXCEPT !.figface = c.figface, !.axface = c.axface]

\* A renderer with nothing drawn or recorded, and what one call draws and records:
\* every call only adds artists after those the canvas holds and sets entries of
\* the mapping, whatever they hold already.
Blank == [ax |-> <<>>, stations |-> <<>>, figface |-> "white", axface |-> "white"]
Drawn(c) == Apply(Blank, c).ax
Recorded(c) == Apply(Blank, c).stations

\* The artists calls[lo .. hi] draw, in the order of the calls.
RECURSIVE DrawnBy(_, _, _)
DrawnBy(calls, lo, hi) ==
    IF lo > hi THEN <<>>
    ELSE IF lo = hi THEN Drawn(calls[lo])
    ELSE DrawnBy(calls, lo, (lo + hi) \div 2) \o DrawnBy(calls, (lo + hi) \div 2 + 1, hi)

\* The last of the calls that satisfies Is, given that one does.
LastCall(calls, Is(_)) ==
    calls[CHOOSE k \in 1..Len(calls) :
            Is(calls[k]) /\ \A m \in (k + 1)..Len(calls) : ~Is(calls[m])]

\* What generate_map draws, and the mapping it records, over all its calls.
generate_map_drawn == DrawnBy(generate_map_calls, 1, Len(generate_map_calls))

generate_map_recorded ==
    LET calls == generate_map_calls
        names == UNION {DOMAIN Recorded(calls[k]) : k \in 1..Len(calls)}
    IN [n \in names |->
          Recorded(LastCall(calls, LAMBDA c : n \in DOMAIN Recorded(c)))[n]]

generate_map_background ==
    LastCall(generate_map_calls, LAMBDA c : c.op = "set_facecolor")

\* generate_map as one operation: the renderer after all its calls, made in order.
generate_map(self) ==
    [ax |-> self.ax \o generate_map_drawn,
     stations |-> generate_map_recorded @@ self.stations,
     figface |-> Apply(self, generate_map_background).figface,
     axface |-> Apply(self, generate_map_background).axface]

(***************************************************************************)
(* The renderer objects and pyplot                                         *)
(***************************************************************************)
NumRenderers == 2
Renderers == 1..NumRenderers

\* What plt.subplots creates and __init__ sets up: empty axes, limits 0..100, axis off.
NewFigure ==
    [ax |-> <<>>, figface |-> "white", axface |-> "white",
     xlim |-> <<LimLo, LimHi>>, ylim |-> <<LimLo, LimHi>>, tight |-> FALSE]

NoRenderer == [fig |-> 0, stations |-> <<>>]

\* Renderer i as the primitives see it: self.ax and self.fig are its own figure's.
Self(i) ==
    [ax |-> figs[gens[i].fig].ax, stations |-> gens[i].stations,
     figface |-> figs[gens[i].fig].figface, axface |-> figs[gens[i].fig].axface]

\* The state after a method of renderer i has turned it into self.
Store(i, self) ==
    /\ figs' = [figs EXCEPT ![gens[i].fig] =
                    [@ EXCEPT !.ax = self.ax, !.figface = self.figface, !.axface = self.axface]]
    /\ gens' = [gens EXCEPT ![i].stations = self.stations]

\* SubwayMapGenerator(): plt.subplots opens a new figure, numbers it and makes it current.
Construct(i) ==
    /\ gens[i].fig = 0
    /\ figs' = Append(figs, NewFigure)
    /\ fignums' = fignums \cup {Len(figs) + 1}
    /\ gcf' = Len(figs) + 1
    /\ gens' = [gens EXCEPT ![i] = [fig |-> Len(figs) + 1, stations |-> <<>>]]

\* generate_map as one operation of renderer i.
GenerateMap(i) ==
    /\ gens[i].fig # 0
    /\ Store(i, generate_map(Self(i)))
    /\ UNCHANGED <<fignums, gcf, fs, stdout>>

(***************************************************************************)
(* The file system and save                                                *)
(***************************************************************************)
Path(dir, base, ext) == [dir |-> dir, base |-> base, ext |-> ext]

DefaultOutput == Path(".", "codebase-subway-map", "png")
DefaultDpi == 300

Paths ==
    {DefaultOutput, Path("out", "map", "svg"), Path("out", "map", "pdf"),
     Path("missing", "map", "png"), Path(".", "map", "xyz")}

\* The extensions the backend has a writer for, among those of Paths.
SupportedFormats == {"png", "svg", "pdf"}

NoFile == [exists |-> FALSE]

\* The directories "." and "out" exist, "missing" does not; no output file exists yet.
InitFs == [dirs |-> {".", "out"}, files |-> [p \in Paths |-> NoFile]]

\* plt.savefig on figure number n: the format is taken from the extension, then the
\* file is opened for writing, then written.  io is what the write meets: "ok", or an
\* I/O error once the file is open, after which the writer either leaves what it
\* wrote ("partial") or deletes the file it created ("removed"), as writers differ.
savefig(fsys, n, figure, path, dpi, io) ==
    IF path.ext \notin SupportedFormats
    THEN [fs |-> fsys, raised |-> "ValueError"]
    ELSE IF path.dir \notin fsys.dirs
    THEN [fs |-> fsys, raised |-> "FileNotFoundError"]
    ELSE IF io = "partial"
    THEN [fs |-> [fsys EXCEPT !.files[path] = [exists |-> TRUE, complete |-> FALSE]],
          raised |-> "OSError"]
    ELSE IF io = "removed"
    THEN [fs |-> [fsys EXCEPT !.files[path] = NoFile], raised |-> "OSError"]
    ELSE [fs |-> [fsys EXCEPT !.files[path] =
                    [exists |-> TRUE, complete |-> TRUE, fig |-> n, artists |-> figure.ax,
                     dpi |-> dpi, facecolor |-> "#f5f5f5", bbox_inches |-> "tight"]],
          raised |-> "none"]

\* What a save to path raises ("none": it returns): decided by savefig.
SaveRaises(path, io) == savefig(fs, gcf, figs[gcf], path, DefaultDpi, io).raised

IoOutcomes == {"ok", "partial", "removed"}

\* save printing its confirmation before savefig is called.
SaveAnnounceFirst(i, path, dpi, io) ==
    /\ gens[i].fig # 0
    /\ LET tightened == [figs EXCEPT ![gcf].tight = TRUE]
           r == savefig(fs, gcf, tightened[gcf], path, dpi, io)
       IN /\ figs' = tightened
          /\ fs' = r.fs
          /\ stdout' = Append(stdout, [msg |-> "Subway map saved to:", filename |-> path])
    /\ UNCHANGED <<fignums, gcf, gens>>

\* save closing the figure it has saved.
SaveAndClose(i, path, dpi, io) ==
    /\ gens[i].fig # 0
    /\ LET tightened == [figs EXCEPT ![gcf].tight = TRUE]
           r == savefig(fs, gcf, tightened[gcf], path, dpi, io)
       IN /\ figs' = tightened
          /\ fs' = IF r.fs.files[path].exists /\ r.raised \in {"none", "OSError"}
                   THEN [r.fs EXCEPT !.files[path] =
                            [by |-> i, own |-> figs[gens[i].fig].ax] @@ r.fs.files[path]]
                   ELSE r.fs
          /\ stdout' = IF r.raised = "none"
                       THEN Append(stdout, [msg |-> "Subway map saved to:", filename |-> path])
                       ELSE stdout
          /\ fignums' = IF r.raised = "none" THEN fignums \ {gcf} ELSE fignums
    /\ UNCHANGED <<gcf, gens>>

\* save(filename, dpi) of renderer i: plt.tight_layout() and plt.savefig(...) act on
\* pyplot's current figure; the confirmation is printed once savefig has returned.
\* A file that is written keeps, for the properties, which renderer's save wrote it
\* (by) and what that renderer's own canvas held (own).
Save(i, path, dpi, io) ==
    /\ gens[i].fig # 0
    /\ LET tightened == [figs EXCEPT ![gcf].tight = TRUE]
           r == savefig(fs, gcf, tightened[gcf], path, dpi, io)
       IN /\ figs' = tightened
          /\ fs' = IF r.fs.files[path].exists /\ r.raised \in {"none", "OSError"}
                   THEN [r.fs EXCEPT !.files[path] =
                            [by |-> i, own |-> figs[gens[i].fig].ax] @@ r.fs.files[path]]
                   ELSE r.fs
          /\ stdout' = IF r.raised = "none"
                       THEN Append(stdout, [msg |-> "Subway map saved to:", filename |-> path])
                       ELSE stdout
    /\ UNCHANGED <<fignums, gcf, gens>>

(***************************************************************************)
(* SpecMap: one renderer, freshly constructed, runs generate_map call by   *)
(* call.                                                                   *)
(***************************************************************************)
InitMap ==
    /\ figs = <<NewFigure>>
    /\ fignums = {1}
    /\ gcf = 1
    /\ gens = [i \in Renderers |-> IF i = 1 THEN [fig |-> 1, stations |-> <<>>] ELSE NoRenderer]
    /\ fs = InitFs
    /\ stdout = <<>>
    /\ log = <<>>
    /\ step = 0
    /\ pc = "generate_map"
    /\ args = <<>>
    /\ exit = <<>>

\* generate_map's next call, once it is known to have one.
NextCall == generate_map_calls[step + 1]

MapAdvance ==
    /\ log' = Append(log, NextCall)
    /\ step' = step + 1
    /\ UNCHANGED <<fignums, gcf, fs, stdout, pc, args, exit>>

MapDrawStation ==
    /\ step < Len(generate_map_calls)
    /\ NextCall.op = "draw_station"
    /\ Store(1, draw_station(Self(1), NextCall.x, NextCall.y, NextCall.name, NextCall.color,
                             NextCall.is_interchange, NextCall.size))
    /\ MapAdvance

MapDrawLine ==
    /\ step < Len(generate_map_calls)
    /\ NextCall.op = "draw_line"
    /\ ~draw_line_raises(NextCall.points)
    /\ Store(1, draw_line(Self(1), NextCall.points, NextCall.color, NextCall.linewidth,
                          NextCall.style))
    /\ MapAdvance

MapAddLabel ==
    /\ step < Len(generate_map_calls)
    /\ NextCall.op = "add_label"
    /\ Store(1, add_label(Self(1), NextCall.x, NextCall.y, NextCall.text, NextCall.fontsize,
                          NextCall.ha, NextCall.va, NextCall.offset_x, NextCall.offset_y,
                          NextCall.bbox_style, NextCall.fontweight))
    /\ MapAdvance

MapDrawLegend ==
    /\ step < Len(generate_map_calls)
    /\ NextCall.op = "draw_legend"
    /\ Store(1, draw_legend(Self(1)))
    /\ MapAdvance

MapFooterText ==
    /\ step < Len(generate_map_calls)
    /\ NextCall.op = "ax.text"
    /\ Store(1, Apply(Self(1), NextCall))
    /\ MapAdvance

MapSetBackground ==
    /\ step < Len(generate_map_calls)
    /\ NextCall.op = "set_facecolor"
    /\ Store(1, Apply(Self(1), NextCall))
    /\ MapAdvance

NextMap ==
    \/ MapDrawStation
    \/ MapDrawLine
    \/ MapAddLabel
    \/ MapDrawLegend
    \/ MapFooterText
    \/ MapSetBackground

SpecMap == InitMap /\ [][NextMap]_vars

MapDone == step = Len(generate_map_calls)

\* The run's canvas agrees with generate_map taken as one operation.
MapCanvas == figs[1].ax

(***************************************************************************)
(* Properties of generate_map (SpecMap)                                    *)
(***************************************************************************)
Range(seq) == {seq[k] : k \in 1..Len(seq)}

Palette == {COLORS.system_info, COLORS.network, COLORS.config, COLORS.devices,
            COLORS.processes, COLORS.storage}

\* The positions in the log of the draw_station, draw_line and add_label calls.
StationCalls == {k \in 1..Len(log) : log[k].op = "draw_station"}
LineCalls == {k \in 1..Len(log) : log[k].op = "draw_line"}
LabelCalls == {k \in 1..Len(log) : log[k].op = "add_label"}

LinePoints(j) == {<<log[j].points[m][1], log[j].points[m][2]>> : m \in 1..Len(log[j].points)}
LineStart(j) == <<log[j].points[1][1], log[j].points[1][2]>>

\* C3 as claimed: in the canvas generate_map produces every line is at depth 2, every
\* station circle at depth 3 or 4, and every text and every legend element at depth 5.
C3_AsClaimed ==
    \A k \in 1..Len(MapCanvas) :
        LET a == MapCanvas[k]
        IN /\ a.kind = "line" => a.zorder = 2
           /\ a.kind = "circle" => a.zorder \in {3, 4}
           /\ (a.kind = "text" \/ a.by = "draw_legend") => a.zorder = 5

\* C3, amended: every polyline (the lines of draw_line and the legend's swatches) is at
\* depth 2, every station circle at depth 3 or 4, every text of add_label and of
\* draw_legend at depth 5, and the footer texts, which are given no depth, at the text
\* default 3; so every line lies beneath every station, and every station beneath every
\* label and every legend text.
C3_Layering ==
    \A k \in 1..Len(MapCanvas) :
        LET a == MapCanvas[k]
        IN /\ a.kind = "line" => a.zorder = 2
           /\ a.kind = "circle" => a.zorder \in {3, 4}
           /\ (a.kind = "text" /\ a.by \in {"add_label", "draw_legend"}) => a.zorder = 5
           /\ (a.kind = "text" /\ a.by = "generate_map") => a.zorder = TextDefaultZorder
           /\ \A m \in 1..Len(MapCanvas) :
                LET b == MapCanvas[m]
                IN /\ (a.kind = "line" /\ b.kind = "circle") => a.zorder < b.zorder
                   /\ (a.kind = "circle" /\ b.kind = "text"
                       /\ b.by \in {"add_label", "draw_legend"}) => a.zorder < b.zorder

\* The finished canvas holds legend swatches, legend texts and both footer texts.
C3_Witness ==
    /\ MapDone
    /\ \E k \in 1..Len(MapCanvas) : MapCanvas[k].kind = "line" /\ MapCanvas[k].by = "draw_legend"
    /\ Cardinality({k \in 1..Len(MapCanvas) : MapCanvas[k].by = "generate_map"}) = 2

\* C4 as claimed: no two draw_station calls record the same name and no two station
\* labels carry the same text.
C4_AsClaimed ==
    /\ \A j, k \in StationCalls : j # k => log[j].name # log[k].name
    /\ \A j, k \in LabelCalls : j # k => log[j].text # log[k].text

\* The label texts that more than one add_label call carries.
RepeatedLabels ==
    {log[k].text : k \in {j \in LabelCalls : \E m \in LabelCalls : m # j /\ log[m].text = log[j].text}}

\* C4, amended: no two draw_station calls record the same name, so no recorded position
\* is overwritten and the mapping holds exactly one entry per station drawn; the label
\* texts are not unique: cmdline, stat, status, environ and version label several stations.
C4_StationNamesUnique ==
    /\ \A j, k \in StationCalls : j # k => log[j].name # log[k].name
    /\ \A k \in StationCalls :
          /\ log[k].name \in DOMAIN gens[1].stations
          /\ gens[1].stations[log[k].name] = <<log[k].x, log[k].y>>
    /\ Cardinality(DOMAIN gens[1].stations) = Cardinality(StationCalls)
    /\ MapDone => RepeatedLabels = {"cmdline", "stat", "status", "environ", "version"}

\* All 39 stations are drawn, among them the two whose labels both read "version".
C4_Witness ==
    /\ MapDone
    /\ Cardinality(StationCalls) = 39
    /\ {"version", "kernel/version"} \subseteq DOMAIN gens[1].stations

\* C7: the hub proc:/ is the first station drawn; every other station follows a line of
\* its own colour through its position; the call right after a draw_station is the
\* add_label at the same anchor; draw_line is only given palette colours; and every
\* palette colour has a line that starts at the hub.
C7_CallOrder ==
    /\ \A k \in StationCalls :
          /\ (\A j \in StationCalls : k <= j) => log[k].name = "proc:/"
          /\ log[k].name # "proc:/" =>
                \E j \in LineCalls :
                    /\ j < k
                    /\ log[j].color = log[k].color
                    /\ <<log[k].x, log[k].y>> \in LinePoints(j)
          /\ k < Len(log) =>
                /\ log[k + 1].op = "add_label"
                /\ log[k + 1].x = log[k].x
                /\ log[k + 1].y = log[k].y
          /\ MapDone => k < Len(log)
    /\ \A j \in LineCalls : log[j].color \in Palette
    /\ MapDone =>
          \A c \in Palette :
              \E j \in LineCalls : log[j].color = c /\ LineStart(j) = <<hub_x, hub_y>>

\* generate_map has made all its calls: 30 lines, and the hub drawn at (50, 50).
C7_Witness ==
    /\ MapDone
    /\ Cardinality(LineCalls) = 30
    /\ \E k \in StationCalls : log[k].name = "proc:/" /\ <<log[k].x, log[k].y>> = <<hub_x, hub_y>>

\* C9 as claimed: every coordinate generate_map places on the canvas lies inside the
\* axis limits 0 <= x <= 100, 0 <= y <= 100.
C9_AsClaimed ==
    \A k \in 1..Len(MapCanvas) :
        \A m \in 1..Len(MapCanvas[k].pts) :
            /\ figs[1].xlim[1] <= MapCanvas[k].pts[m][1]
            /\ MapCanvas[k].pts[m][1] <= figs[1].xlim[2]
            /\ figs[1].ylim[1] <= MapCanvas[k].pts[m][2]
            /\ MapCanvas[k].pts[m][2] <= figs[1].ylim[2]

\* The label that names station call k: the text of the add_label that follows it.
LabelOf(k) == log[k + 1].text

\* The leaf (non-interchange) stations on a line that starts at position h.
LeavesFrom(h) ==
    {k \in StationCalls :
        /\ ~log[k].is_interchange
        /\ \E j \in LineCalls :
              /\ LineStart(j) = h
              /\ \E m \in 2..Len(log[j].points) :
                    <<log[j].points[m][1], log[j].points[m][2]>> = <<log[k].x, log[k].y>>}

\* The position of the interchange station labelled label.
HubOf(label) ==
    LET k == CHOOSE n \in StationCalls : log[n].is_interchange /\ LabelOf(n) = label
    IN <<log[k].x, log[k].y>>

\* The leaves from h carry exactly the names of list, each once.
LeavesAre(h, list) ==
    /\ {LabelOf(k) : k \in LeavesFrom(h)} = Range(list)
    /\ Cardinality(LeavesFrom(h)) = Len(list)

\* The sub-hub's label for each directory of CODEBASE_STRUCTURE.
SubHubLabel ==
    ("net" :> "net/") @@ ("sys/kernel" :> "kernel/") @@ ("devices" :> "devices/")
    @@ ("self" :> "self/") @@ ("[PID]" :> "[PID]/")

\* C10: the leaf stations on the lines from the hub proc:/ are labelled exactly with
\* the 12 Root files, each once, and the leaf stations branching from the sub-hub of
\* each directory exactly with that directory's entries, each once.
C10_MatchesStructure ==
    MapDone =>
        /\ LeavesAre(HubOf("proc:/"), CODEBASE_STRUCTURE.Root.files)
        /\ DOMAIN CODEBASE_STRUCTURE.Root.dirs = DOMAIN SubHubLabel
        /\ \A d \in DOMAIN CODEBASE_STRUCTURE.Root.dirs :
              /\ \E k \in StationCalls : log[k].is_interchange /\ LabelOf(k) = SubHubLabel[d]
              /\ LeavesAre(HubOf(SubHubLabel[d]), CODEBASE_STRUCTURE.Root.dirs[d])

\* The finished map has 12 leaves on the hub's lines and 5 on the [PID]/ sub-hub's.
C10_Witness ==
    /\ MapDone
    /\ Cardinality(LeavesFrom(<<hub_x, hub_y>>)) = 12
    /\ Cardinality(LeavesFrom(<<pid_x, pid_y>>)) = 5

(***************************************************************************)
(* SpecPrim: a client calls the drawing primitives of one freshly          *)
(* constructed renderer, with arguments of its own choosing.               *)
(***************************************************************************)
MaxCalls == 2
MaxPoints == 2

PrimP1 == <<Units(10), Units(50)>>
PrimP2 == <<Units(50), Units(20)>>
\* A station tuple (x, y, name) passed where a point is expected.
PrimP3 == <<Units(10), Units(50), "cpuinfo">>

PrimPointSeqs ==
    UNION {[1..n -> {PrimP1, PrimP2}] : n \in 0..MaxPoints} \cup {<<PrimP3>>, <<PrimP3, PrimP3>>}

PrimStations ==
    {St(PrimP1[1], PrimP1[2], "a", COLORS.network, FALSE, DefaultSize),
     St(PrimP2[1], PrimP2[2], "a", COLORS.storage, TRUE, DefaultSize),
     St(PrimP2[1], PrimP2[2], "b", COLORS.network, FALSE, 60),
     St(PrimP1[1], PrimP1[2], "b", "black", TRUE, 150),
     St(PrimP1[1], PrimP1[2], "c", "white", TRUE, 60),
     St(PrimP2[1], PrimP2[2], "c", "white", FALSE, 90)}

PrimLabels ==
    {Lb(PrimP1[1], PrimP1[2], "a", DefaultFontsize, "left", DefaultOffsetX, DefaultOffsetY,
        FALSE, "normal"),
     Lb(PrimP2[1], PrimP2[2], "b", 11, "center", 0, -250, TRUE, "bold")}

\* The call as the log keeps it: with whether it raised.
Logged(c, raised) == [raised |-> raised] @@ c

PrimFrame == UNCHANGED <<fignums, gcf, fs, stdout, step, pc, args, exit>>

PrimDrawStation ==
    \E c \in PrimStations :
        /\ Len(log) < MaxCalls
        /\ Store(1, draw_station(Self(1), c.x, c.y, c.name, c.color, c.is_interchange, c.size))
        /\ log' = Append(log, Logged(c, FALSE))
        /\ PrimFrame

PrimDrawLine ==
    \E points \in PrimPointSeqs, color \in {COLORS.network, "black"},
       linewidth \in {DefaultLinewidth} :
        /\ Len(log) < MaxCalls
        /\ IF draw_line_raises(points)
           THEN UNCHANGED <<figs, gens>>
           ELSE Store(1, draw_line(Self(1), points, color, linewidth, "-"))
        /\ log' = Append(log, Logged(Ln(points, color, linewidth), draw_line_raises(points)))
        /\ PrimFrame

PrimAddLabel ==
    \E c \in PrimLabels :
        /\ Len(log) < MaxCalls
        /\ Store(1, add_label(Self(1), c.x, c.y, c.text, c.fontsize, c.ha, c.va, c.offset_x,
                              c.offset_y, c.bbox_style, c.fontweight))
        /\ log' = Append(log, Logged(c, FALSE))
        /\ PrimFrame

PrimDrawLegend ==
    /\ Len(log) < MaxCalls
    /\ Store(1, draw_legend(Self(1)))
    /\ log' = Append(log, Logged([op |-> "draw_legend"], FALSE))
    /\ PrimFrame

NextPrim ==
    \/ PrimDrawStation
    \/ PrimDrawLine
    \/ PrimAddLabel
    \/ PrimDrawLegend

SpecPrim == InitMap /\ [][NextPrim]_vars

\* A step that is a call of method op, and that call.
Calls(op) == Len(log') = Len(log) + 1 /\ log'[Len(log')].op = op
TheCall == log'[Len(log')]

\* ax2 is ax1 with exactly n artists added at its end.
Adds(ax1, ax2, n) == Len(ax2) = Len(ax1) + n /\ SubSeq(ax2, 1, Len(ax1)) = ax1

\* C1: draw_line with 0 or 1 points returns normally, adds nothing to the canvas and
\* leaves the stations unchanged; with 2 or more (x, y) points it adds exactly one
\* polyline through those points in their order.
C1_DrawLine ==
    [][Calls("draw_line") =>
          IF Len(TheCall.points) < 2
          THEN ~TheCall.raised /\ figs' = figs /\ gens' = gens
          ELSE (\A k \in 1..Len(TheCall.points) : Len(TheCall.points[k]) = 2) =>
                  /\ ~TheCall.raised
                  /\ Adds(figs[1].ax, figs'[1].ax, 1)
                  /\ figs'[1].ax[Len(figs'[1].ax)].kind = "line"
                  /\ figs'[1].ax[Len(figs'[1].ax)].pts = TheCall.points
                  /\ figs'[1].ax[Len(figs'[1].ax)].color = TheCall.color
                  /\ gens' = gens]_vars

\* draw_line was called with one point, adding nothing, and then with two, adding
\* the only artist of the canvas.
C1_Witness ==
    /\ Len(log) = 2
    /\ log[1].op = "draw_line" /\ Len(log[1].points) = 1 /\ Len(figs[1].ax) = 1
    /\ log[2].op = "draw_line" /\ log[2].points = <<PrimP2, PrimP1>>

\* C2: draw_station adds one circle of radius size and the given colour at (x, y), or,
\* for an interchange, a white circle of radius 1.2*size and then one of radius size in
\* the given colour at a strictly higher depth; afterwards stations[name] = (x, y) and
\* every other entry is as before.
C2_DrawStation ==
    [][Calls("draw_station") =>
          LET c == TheCall
              ax == figs'[1].ax
              n == Len(ax)
          IN /\ IF c.is_interchange
                THEN /\ Adds(figs[1].ax, ax, 2)
                     /\ ax[n - 1].kind = "circle" /\ ax[n].kind = "circle"
                     /\ ax[n - 1].pts = << <<c.x, c.y>> >> /\ ax[n].pts = << <<c.x, c.y>> >>
                     /\ ax[n - 1].color = "white" /\ ax[n - 1].r * 10 = c.size * 12
                     /\ ax[n].color = c.color /\ ax[n].r = c.size
                     /\ ax[n].zorder > ax[n - 1].zorder
                ELSE /\ Adds(figs[1].ax, ax, 1)
                     /\ ax[n].kind = "circle"
                     /\ ax[n].pts = << <<c.x, c.y>> >>
                     /\ ax[n].color = c.color /\ ax[n].r = c.size
             /\ DOMAIN gens'[1].stations = DOMAIN gens[1].stations \cup {c.name}
             /\ gens'[1].stations[c.name] = <<c.x, c.y>>
             /\ \A m \in DOMAIN gens[1].stations :
                    m # c.name => gens'[1].stations[m] = gens[1].stations[m]]_vars

\* An interchange station was drawn under a name a plain station already held.
C2_Witness ==
    /\ Len(log) = 2
    /\ log[1].op = "draw_station" /\ ~log[1].is_interchange /\ log[1].name = "a"
    /\ log[2].op = "draw_station" /\ log[2].is_interchange /\ log[2].name = "a"
    /\ Len(figs[1].ax) = 3
    /\ gens[1].stations["a"] = PrimP2

(***************************************************************************)
(* SpecProc: a process that constructs several renderers and calls         *)
(* generate_map (once on a fresh canvas) and save on them, in any order.   *)
(***************************************************************************)
MaxSaves == 2

InitProc ==
    /\ figs = <<>>
    /\ fignums = {}
    /\ gcf = 0
    /\ gens = [i \in Renderers |-> NoRenderer]
    /\ fs = InitFs
    /\ stdout = <<>>
    /\ log = <<>>
    /\ step = 0
    /\ pc = "client"
    /\ args = <<>>
    /\ exit = <<>>

ProcConstruct ==
    \E i \in Renderers :
        /\ Construct(i)
        /\ UNCHANGED <<fs, stdout, log, step, pc, args, exit>>

ProcGenerateMap ==
    \E i \in Renderers :
        /\ gens[i].fig # 0
        /\ figs[gens[i].fig].ax = <<>>
        /\ GenerateMap(i)
        /\ UNCHANGED <<log, step, pc, args, exit>>

ProcSave ==
    \E i \in Renderers, path \in {DefaultOutput, Path("missing", "map", "png")},
       io \in IoOutcomes :
        /\ Len(stdout) < MaxSaves
        /\ Save(i, path, DefaultDpi, io)
        /\ UNCHANGED <<log, step, pc, args, exit>>

NextProc ==
    \/ ProcConstruct
    \/ ProcGenerateMap
    \/ ProcSave

SpecProc == InitProc /\ [][NextProc]_vars

Constructed == {i \in Renderers : gens[i].fig # 0}

\* The files a save has written completely.
SavedFiles == {p \in Paths : fs.files[p].exists /\ fs.files[p].complete}

\* C6 as claimed: the figure is released after saving: no figure of a renderer whose
\* save has written a file remains open.
C6_AsClaimed ==
    \A p \in SavedFiles : gens[fs.files[p].by].fig \notin fignums

\* C6, amended: each renderer creates its figure exactly once (as many figures were
\* ever created as renderers were constructed, each renderer holding its own), and no
\* figure is ever released before the process ends: every constructed renderer's
\* figure stays open, also after its save, so the number of open figures equals the
\* number of renderers constructed.
C6_FiguresStayOpen ==
    /\ Len(figs) = Cardinality(Constructed)
    /\ \A i, j \in Constructed : i # j => gens[i].fig # gens[j].fig
    /\ \A i \in Constructed : gens[i].fig \in fignums
    /\ Cardinality(fignums) = Cardinality(Constructed)
    /\ \A p \in SavedFiles : gens[fs.files[p].by].fig \in fignums

\* Two renderers went through construct, generate_map and save; both figures are open.
C6_Witness ==
    /\ Len(stdout) = 2
    /\ \A i \in {1, 2} : i \in Constructed /\ figs[gens[i].fig].ax # <<>>
    /\ fs.files[DefaultOutput].exists /\ fs.files[DefaultOutput].complete
    /\ fignums = {1, 2}

\* C8 as claimed: the file a renderer's save writes holds that renderer's own canvas:
\* the figure serialized is the renderer's own, with the artists drawn on it.
C8_AsClaimed ==
    \A p \in SavedFiles :
        /\ fs.files[p].fig = gens[fs.files[p].by].fig
        /\ fs.files[p].artists = fs.files[p].own

(***************************************************************************)
(* SpecMain: one run of main in a fresh process.                           *)
(***************************************************************************)
DpiChoices == {72, 150, DefaultDpi}

InitMain ==
    /\ figs = <<>>
    /\ fignums = {}
    /\ gcf = 0
    /\ gens = [i \in Renderers |-> NoRenderer]
    /\ fs = InitFs
    /\ stdout = <<>>
    /\ log = <<>>
    /\ step = 0
    /\ pc = "parse_args"
    /\ args = <<>>
    /\ exit = <<>>

\* parser.parse_args(): the command line gives -o and --dpi (or leaves the defaults);
\* one that does not parse (ok = FALSE, as "--dpi abc") ends the process with status 2.
MainParseArgs ==
    \E output \in Paths, dpi \in DpiChoices, ok \in BOOLEAN :
        /\ pc = "parse_args"
        /\ IF ok
           THEN /\ args' = [output |-> output, dpi |-> dpi]
                /\ pc' = "print_start"
                /\ exit' = exit
           ELSE /\ args' = args
                /\ pc' = "exited"
                /\ exit' = <<2>>
        /\ UNCHANGED <<figs, fignums, gcf, gens, fs, stdout, log, step>>

MainPrintStart ==
    /\ pc = "print_start"
    /\ stdout' = Append(stdout, [msg |-> "Generating PsProc Codebase Subway Map..."])
    /\ log' = Append(log, [op |-> "print", what |-> "start"])
    /\ pc' = "construct"
    /\ UNCHANGED <<figs, fignums, gcf, gens, fs, step, args, exit>>

MainConstruct ==
    /\ pc = "construct"
    /\ Construct(1)
    /\ log' = Append(log, [op |-> "__init__"])
    /\ pc' = "generate_map"
    /\ UNCHANGED <<fs, stdout, step, args, exit>>

MainGenerateMap ==
    /\ pc = "generate_map"
    /\ GenerateMap(1)
    /\ log' = Append(log, [op |-> "generate_map"])
    /\ pc' = "save"
    /\ UNCHANGED <<step, args, exit>>

\* generator.save(...): what it raises is not caught, and ends the process with status 1.
MainSave ==
    \E io \in IoOutcomes :
        /\ pc = "save"
        /\ Save(1, args.output, args.dpi, io)
        /\ log' = Append(log, [op |-> "save", raised |-> SaveRaises(args.output, io)])
        /\ IF SaveRaises(args.output, io) = "none"
           THEN pc' = "print_done" /\ exit' = exit
           ELSE pc' = "exited" /\ exit' = <<1>>
        /\ UNCHANGED <<step, args>>

MainPrintDone ==
    /\ pc = "print_done"
    /\ stdout' = Append(stdout, [msg |-> "Done! Map saved as", filename |-> args.output])
    /\ log' = Append(log, [op |-> "print", what |-> "done"])
    /\ pc' = "return"
    /\ UNCHANGED <<figs, fignums, gcf, gens, fs, step, args, exit>>

MainReturn ==
    /\ pc = "return"
    /\ pc' = "exited"
    /\ exit' = <<0>>
    /\ UNCHANGED <<figs, fignums, gcf, gens, fs, stdout, log, step, args>>

NextMain ==
    \/ MainParseArgs
    \/ MainPrintStart
    \/ MainConstruct
    \/ MainGenerateMap
    \/ MainSave
    \/ MainPrintDone
    \/ MainReturn

SpecMain == InitMain /\ [][NextMain]_vars

\* The run's events in order: the two messages main prints and its calls of
\* generate_map and save from the log, and the confirmation save prints from stdout
\* (it is printed inside save, so right after the save event).
EventOf(entry) == IF entry.op = "print" THEN entry.what ELSE entry.op

EventsOfLog ==
    LET f[k \in 0..Len(log)] ==
            IF k = 0 THEN <<>>
            ELSE IF log[k].op = "__init__" THEN f[k - 1]
            ELSE IF log[k].op = "save" /\ \E m \in 1..Len(stdout) : stdout[m].msg = "Subway map saved to:"
            THEN f[k - 1] \o <<"save", "saved">>
            ELSE Append(f[k - 1], EventOf(log[k]))
    IN f[Len(log)]

ExpectedEvents == <<"start", "generate_map", "save", "saved", "done">>

IsPrefix(s, t) == Len(s) <= Len(t) /\ SubSeq(t, 1, Len(s)) = s

SaveFailed == \E k \in 1..Len(log) : log[k].op = "save" /\ log[k].raised # "none"
SaveFailedWith(errors) == \E k \in 1..Len(log) : log[k].op = "save" /\ log[k].raised \in errors

Printed(msg) == \E m \in 1..Len(stdout) : stdout[m].msg = msg

\* C5 as claimed: the events come in the order start message, generate_map, save,
\* "saved" confirmation, completion message; and when save fails the run ends with a
\* non-zero status, no output file exists, not even a partial one, and neither the
\* confirmation nor the completion message is printed.
C5_AsClaimed ==
    /\ IsPrefix(EventsOfLog, ExpectedEvents)
    /\ SaveFailed =>
          /\ Len(exit) = 1 /\ exit[1] # 0
          /\ ~fs.files[args.output].exists
          /\ ~Printed("Subway map saved to:")
          /\ ~Printed("Done! Map saved as")

\* C5, amended: the events come in that order; when save fails the run ends with a
\* non-zero status and neither the confirmation nor the completion message is
\* printed; no output file exists when the failure comes before the file is opened
\* (a directory that does not exist, an extension with no writer), but after a
\* failure while writing a partial file may remain, as the program removes nothing.
\* A run that ends with status 0 has emitted all five events and written the file
\* completely.
C5_MainRun ==
    /\ IsPrefix(EventsOfLog, ExpectedEvents)
    /\ SaveFailed =>
          /\ Len(exit) = 1 /\ exit[1] # 0
          /\ ~Printed("Subway map saved to:")
          /\ ~Printed("Done! Map saved as")
    /\ SaveFailedWith({"FileNotFoundError", "ValueError"}) => ~fs.files[args.output].exists
    /\ SaveFailedWith({"OSError"}) =>
          (fs.files[args.output].exists => ~fs.files[args.output].complete)
    /\ exit = <<0>> =>
          /\ EventsOfLog = ExpectedEvents
          /\ fs.files[args.output].exists /\ fs.files[args.output].complete

\* A run whose output directory does not exist has ended in save, with status 1.
C5_Witness ==
    /\ pc = "exited"
    /\ exit = <<1>>
    /\ args.output.dir = "missing"
    /\ SaveFailedWith({"FileNotFoundError"})
    /\ Len(stdout) = 1

====
